---- MODULE Spec2Model ----
(***************************************************************************)
(* TM1637 seven-segment display driver (tm1637.cpp / tm1637.hpp).          *)
(*                                                                         *)
(* The driver owns two output lines (clk, dio) and one byte of state       *)
(* (brightness_).  Every public member function is one action; the calls   *)
(* it makes to gpio_put and sleep_us are recorded, in order, as the line   *)
(* trace of that call.  Characters are their codes, texts are sequences of *)
(* codes, Segments are sequences of bytes.                                 *)
(***************************************************************************)
EXTENDS Integers, Sequences, FiniteSets

VARIABLES
    brightness_,  \* TM1637::brightness_
    clk,          \* level last driven on the clock line
    dio,          \* level last driven on the data line
    call,         \* the last public call: [op, num, seq, pos, colon]
    pre,          \* line levels when that call began: [clk, dio]
    trace,        \* gpio_put / sleep_us calls made by that call, in order
    outcome,      \* how that call ended: "ok", "out_of_range", "fault"
    ret,          \* value that call returned (-1: void, or it did not return)
    enc,          \* the encode_string evaluation that call made: [str, segs, outcome]
    bsrc,         \* history: the call that last assigned brightness_: [by, arg]
    halted        \* the process has faulted; no further call is made

vars == <<brightness_, clk, dio, call, pre, trace, outcome, ret, enc, bsrc, halted>>

----------------------------------------------------------------------------
(* Program constants *)

TM1637_CMD1 == 64
TM1637_CMD2 == 192
TM1637_CMD3 == 128
TM1637_DSP_ON == 8
TM1637_DELAY == 10
TM1637_MSB == 128

_SEGMENTS ==
    << 63, 6, 91, 79, 102, 109, 125, 7, 127, 111,       \* 0 - 9
       119, 124, 57, 94, 121, 113, 61, 118, 6, 30,      \* a - j
       118, 56, 85, 84, 92, 115, 103, 80, 109, 120,     \* k - t
       62, 28, 42, 118, 110, 91,                        \* u - z
       0, 64, 99 >>                                     \* space, dash, star

\* _SEGMENTS[i] with the array's 0-based index
SegAt(i) == _SEGMENTS[i + 1]

\* character codes the code names
ChDot == 46
ChSpace == 32
ChStar == 42
ChDash == 45

----------------------------------------------------------------------------
(* 8-bit arithmetic *)

RECURSIVE BitOr(_, _)
BitOr(a, b) ==
    IF a = 0 THEN b
    ELSE IF b = 0 THEN a
    ELSE (IF a % 2 = 1 \/ b % 2 = 1 THEN 1 ELSE 0) + 2 * BitOr(a \div 2, b \div 2)

RECURSIVE BitAnd(_, _)
BitAnd(a, b) ==
    IF a = 0 \/ b = 0 THEN 0
    ELSE (IF a % 2 = 1 /\ b % 2 = 1 THEN 1 ELSE 0) + 2 * BitAnd(a \div 2, b \div 2)

Min(a, b) == IF a < b THEN a ELSE b

----------------------------------------------------------------------------
(* The two platform calls, as trace events *)

gpio_put(line, level) == <<line, level>>
sleep_us(us) == <<"sleep", us>>

(* Protocol primitives: the sequence of platform calls each one makes *)

_start ==
    << gpio_put("clk", 1), sleep_us(TM1637_DELAY),
       gpio_put("dio", 1), sleep_us(TM1637_DELAY),
       gpio_put("dio", 0), sleep_us(TM1637_DELAY),
       gpio_put("clk", 0), sleep_us(TM1637_DELAY) >>

_stop ==
    << gpio_put("clk", 0), sleep_us(TM1637_DELAY),
       gpio_put("dio", 0), sleep_us(TM1637_DELAY),
       gpio_put("clk", 1), sleep_us(TM1637_DELAY),
       gpio_put("dio", 1) >>

\* (variant: the bits taken from the most significant end)
WriteBit_MsbFirst(b, i) ==
    << gpio_put("dio", (b \div (2 ^ (7 - i))) % 2), sleep_us(TM1637_DELAY),
       gpio_put("clk", 1), sleep_us(TM1637_DELAY),
       gpio_put("clk", 0), sleep_us(TM1637_DELAY) >>

\* the body of _write_byte's for loop, for bit i
WriteBit(b, i) ==
    << gpio_put("dio", (b \div (2 ^ i)) % 2), sleep_us(TM1637_DELAY),
       gpio_put("clk", 1), sleep_us(TM1637_DELAY),
       gpio_put("clk", 0), sleep_us(TM1637_DELAY) >>

RECURSIVE WriteBits(_, _)
WriteBits(b, i) ==
    IF i < 8 THEN WriteBit(b, i) \o WriteBits(b, i + 1) ELSE <<>>

\* the pulse that follows the eight bits
AckPulse ==
    << gpio_put("clk", 0), sleep_us(TM1637_DELAY),
       gpio_put("clk", 1), sleep_us(TM1637_DELAY),
       gpio_put("clk", 0), sleep_us(TM1637_DELAY) >>

_write_byte(b) == WriteBits(b, 0) \o AckPulse

_write_data_cmd == _start \o _write_byte(TM1637_CMD1) \o _stop

\* (variant: the command byte without the stored brightness, always full)
DspCtrlByte_Full(b) == BitOr(BitOr(TM1637_CMD3, TM1637_DSP_ON), 7)

\* b is the value of brightness_ when the command is sent
DspCtrlByte(b) == BitOr(BitOr(TM1637_CMD3, TM1637_DSP_ON), b)

_write_dsp_ctrl(b) == _start \o _write_byte(DspCtrlByte(b)) \o _stop

----------------------------------------------------------------------------
(* SegmentEncoder *)

\* (variant: the digit reduced modulo 10, as for a decimal digit)
encode_digit_Decimal(digit) == SegAt(digit % 10)

encode_digit(digit) == SegAt(BitAnd(digit, 15))

\* (variant: the upper-case offset taken from 'A' itself, not from 'A' - 10)
CharIndex_UpperFromA(ch) ==
    IF ch = ChSpace THEN 36
    ELSE IF ch = ChStar THEN 38
    ELSE IF ch = ChDash THEN 37
    ELSE IF ch >= 65 /\ ch <= 90 THEN ch - 65
    ELSE IF ch >= 97 /\ ch <= 122 THEN ch - 87
    ELSE IF ch >= 48 /\ ch <= 57 THEN ch - 48
    ELSE 38

\* the index encode_char passes to _SEGMENTS[] for the character code ch
CharIndex(ch) ==
    IF ch = ChSpace THEN 36
    ELSE IF ch = ChStar THEN 38
    ELSE IF ch = ChDash THEN 37
    ELSE IF ch >= 65 /\ ch <= 90 THEN ch - 55
    ELSE IF ch >= 97 /\ ch <= 122 THEN ch - 87
    ELSE IF ch >= 48 /\ ch <= 57 THEN ch - 48
    ELSE 38

encode_char(ch) == SegAt(CharIndex(ch))

\* first pass of encode_string: the number of characters that are not '.'
CountNonDot(str) == Cardinality({i \in 1..Len(str) : str[i] # ChDot})

\* What an out-of-bounds segments[j] = ... may do: the store is undefined
\* behaviour.  Either it traps ("fault"), or it lands outside the vector's
\* elements ("ignored": size() is unchanged, and a later push_back overwrites
\* or does not copy the stray byte).
UBOutcomes == {"ignored", "fault"}

\* second pass of encode_string, from character i (1-based) with j segments
\* emitted so far
RECURSIVE EncodeLoop(_, _, _, _, _)
EncodeLoop(str, i, j, segments, ub) ==
    IF i > Len(str) THEN [segs |-> segments, outcome |-> "ok"]
    ELSE IF str[i] = ChDot /\ j > 0
    THEN IF j - 1 >= Len(segments)
         THEN [segs |-> segments, outcome |-> "out_of_range"]   \* at() throws
         ELSE EncodeLoop(str, i + 1, j,
                         [segments EXCEPT ![j] = BitOr(@, TM1637_MSB)], ub)
    ELSE IF j >= Len(segments)
         THEN IF ub = "fault"
              THEN [segs |-> segments, outcome |-> "fault"]
              ELSE EncodeLoop(str, i + 1, j + 1, segments, ub)
         ELSE EncodeLoop(str, i + 1, j + 1,
                         [segments EXCEPT ![j + 1] = encode_char(str[i])], ub)

\* while (segments.size() < 6) segments.push_back(encode_char(' '))
RECURSIVE PadTo6(_)
PadTo6(segments) ==
    IF Len(segments) < 6 THEN PadTo6(Append(segments, encode_char(ChSpace)))
    ELSE segments

\* the result of encode_string(str): [segs, outcome]; segs is the returned
\* vector when outcome = "ok"
encode_string(str, ub) ==
    LET d == CountNonDot(str)
        r == EncodeLoop(str, 1, 0, [i \in 1..d |-> 0], ub)
    IN  IF r.outcome = "ok"
        THEN [segs |-> PadTo6(r.segs), outcome |-> "ok"]
        ELSE [segs |-> <<>>, outcome |-> r.outcome]

----------------------------------------------------------------------------
(* ProtocolDriver: write *)

\* (variant: the segments in their own order, as in the commented-out loop)
WriteIndex_InOrder(i) == i

\* the index write passes to segments.at() for loop counter i
WriteIndex(i) == ((i \div 3) % 256) * 6 + 2 - i

\* write's for loop from counter i: [tr, thrown]
RECURSIVE WriteLoop(_, _)
WriteLoop(segments, i) ==
    IF i >= Len(segments) THEN [tr |-> <<>>, thrown |-> FALSE]
    ELSE IF WriteIndex(i) >= Len(segments)
    THEN [tr |-> <<>>, thrown |-> TRUE]                         \* at() throws
    ELSE LET rest == WriteLoop(segments, i + 1)
         IN  [tr |-> _write_byte(segments[WriteIndex(i) + 1]) \o rest.tr,
              thrown |-> rest.thrown]

\* (variant: the position taken as given)
ClampPos_None(pos) == pos

\* pos = std::min(pos, uint8_t(0x05))
ClampPos(pos) == Min(pos, 5)

AddressByte(pos) == BitOr(TM1637_CMD2, ClampPos(pos))

\* (variant: the address transaction sent without the data command before it)
write_NoDataCmd(segments, pos, b) ==
    LET loop == WriteLoop(segments, 0)
        head == _start \o _write_byte(AddressByte(pos)) \o loop.tr
    IN  IF loop.thrown
        THEN [tr |-> head, outcome |-> "out_of_range"]
        ELSE [tr |-> head \o _stop \o _write_dsp_ctrl(b), outcome |-> "ok"]

\* write(segments, pos) with brightness_ = b: [tr, outcome]
write(segments, pos, b) ==
    LET loop == WriteLoop(segments, 0)
        head == _write_data_cmd \o _start \o _write_byte(AddressByte(pos)) \o loop.tr
    IN  IF loop.thrown
        THEN [tr |-> head, outcome |-> "out_of_range"]
        ELSE [tr |-> head \o _stop \o _write_dsp_ctrl(b), outcome |-> "ok"]

----------------------------------------------------------------------------
(* Stream formatting used by hex and number *)

RECURSIVE ToDec(_)
ToDec(n) == IF n < 10 THEN <<48 + n>> ELSE Append(ToDec(n \div 10), 48 + (n % 10))

HexDigitChar(d) == IF d < 10 THEN 48 + d ELSE 87 + d

RECURSIVE ToHex(_)
ToHex(n) ==
    IF n < 16 THEN <<HexDigitChar(n)>>
    ELSE Append(ToHex(n \div 16), HexDigitChar(n % 16))

\* std::setw(w) with the default fill and adjustment: pad on the left
RECURSIVE SetW(_, _)
SetW(w, s) == IF Len(s) < w THEN SetW(w, <<ChSpace>> \o s) ELSE s

\* encode_string followed by write, as hex, number and show do: [tr, outcome, enc]
EncodeAndWrite(str, ub, b) ==
    LET e == encode_string(str, ub)
        w == write(e.segs, 0, b)
    IN  IF e.outcome # "ok"
        THEN [tr |-> <<>>, outcome |-> e.outcome,
              enc |-> [str |-> str, segs |-> e.segs, outcome |-> e.outcome]]
        ELSE [tr |-> w.tr, outcome |-> w.outcome,
              enc |-> [str |-> str, segs |-> e.segs, outcome |-> e.outcome]]

\* The texts hex and number format hold no '.', so encode_string makes no
\* out-of-bounds store for them and the choice of ub is immaterial.
\* (variant: the stream left in decimal, std::hex forgotten)
hex_Decimal(val, b) == EncodeAndWrite(SetW(6, ToDec(val)), "fault", b)

hex(val, b) == EncodeAndWrite(SetW(6, ToHex(val)), "fault", b)

number(num, b) == EncodeAndWrite(SetW(6, ToDec(num)), "fault", b)

\* (variant: the colon shown, as the decimal point of the second digit)
show_Colon(str, colon, ub, b) ==
    IF colon /\ Len(str) >= 2
    THEN EncodeAndWrite(SubSeq(str, 1, 2) \o <<ChDot>> \o SubSeq(str, 3, Len(str)), ub, b)
    ELSE EncodeAndWrite(str, ub, b)

show(str, colon, ub, b) == EncodeAndWrite(str, ub, b)

----------------------------------------------------------------------------
(* Construction *)

\* the platform calls the constructor makes once both pins are outputs
TM1637(brightness) ==
    << gpio_put("clk", 0), gpio_put("dio", 0) >>
        \o _write_data_cmd \o _write_dsp_ctrl(Min(7, brightness))

\* the level a line is left at by the calls of tr, from level init
RECURSIVE LastPut(_, _, _, _)
LastPut(tr, i, line, init) ==
    IF i = 0 THEN init
    ELSE IF tr[i][1] = line THEN tr[i][2]
    ELSE LastPut(tr, i - 1, line, init)

LevelAfter(tr, line, init) == LastPut(tr, Len(tr), line, init)

----------------------------------------------------------------------------
(* Arguments the calls are made with *)

MaxSegLen == 7       \* write is called with 0..MaxSegLen segments
MaxRunLen == 10      \* show is called with digit runs up to this length
MaxDigits == 8       \* number is called with values of up to this many digits
MaxEncLen == 4       \* encode_string is applied to every text up to this length

BrightnessArgs == {0, 5, 8, 255}

PosArgs == {0, 3, 5, 6, 255}

\* n distinct bytes starting at base
SegsFrom(base, n) == [i \in 1..n |-> (base + i - 1) % 256]

\* bytes 126, 127, 128, ...: distinct, with and without bit 7
SegmentArgs == {SegsFrom(126, n) : n \in 0..MaxSegLen}

HexArgs == {0, 10, 255, 4660, 43981, 65535}

NumberArgs == {0, 7, 1000000, 2147483647} \cup {10 ^ k - 1 : k \in 1..MaxDigits}

TextAlphabet == {ChDot, 49, 97}

TextsUpTo(n) == UNION {[1..k -> TextAlphabet] : k \in 0..n}

\* "1234567890123..." cut to n characters
DigitRun(n) == [i \in 1..n |-> 48 + (i % 10)]

ShowTexts ==
    { <<>>, <<ChDot>>, <<ChDot, ChDot>>, <<ChDot, 49>>, <<49, ChDot>>,
      <<49, ChDot, 50>>, <<97, ChDot, ChDot, 66>>,
      <<49, 50, ChDot, 51, 52, ChDot, 53, 54>> }
        \cup {DigitRun(n) : n \in 4..MaxRunLen}

EncTexts == TextsUpTo(MaxEncLen) \cup {DigitRun(n) : n \in 5..MaxRunLen}

NoEnc == [str |-> <<>>, segs |-> <<>>, outcome |-> "none"]

----------------------------------------------------------------------------
(* The driver as a state machine: one action per public member function *)

\* The level a line may have when the constructor begins.  The constructor
\* makes the pin an output and drives it low; what the line was at before
\* that depends on the board (a pull-up holds an undriven line high).
LineLevels == {0, 1}

Init ==
    \E b0 \in BrightnessArgs, c0 \in LineLevels, d0 \in LineLevels :
        /\ brightness_ = Min(7, b0)
        /\ trace = TM1637(b0)
        /\ pre = [clk |-> c0, dio |-> d0]
        /\ clk = LevelAfter(TM1637(b0), "clk", c0)
        /\ dio = LevelAfter(TM1637(b0), "dio", d0)
        /\ call = [op |-> "TM1637", num |-> b0, seq |-> <<>>, pos |-> 0, colon |-> FALSE]
        /\ outcome = "ok"
        /\ ret = -1
        /\ enc = NoEnc
        /\ bsrc = [by |-> "TM1637", arg |-> b0]
        /\ halted = FALSE

\* what every call does to the lines and the call record
Lines(tr) ==
    /\ trace' = tr
    /\ pre' = [clk |-> clk, dio |-> dio]
    /\ clk' = LevelAfter(tr, "clk", clk)
    /\ dio' = LevelAfter(tr, "dio", dio)

\* (variant: the value clamped as the constructor clamps it)
MaskBrightness_Clamp(val) == Min(7, val)

\* brightness_ = (val & 0x07)
MaskBrightness(val) == BitAnd(val, 7)

Brightness(val) ==
    /\ ~halted
    /\ brightness_' = MaskBrightness(val)
    /\ Lines(_write_data_cmd \o _write_dsp_ctrl(brightness_'))
    /\ ret' = brightness_'
    /\ outcome' = "ok"
    /\ call' = [op |-> "brightness", num |-> val, seq |-> <<>>, pos |-> 0, colon |-> FALSE]
    /\ bsrc' = [by |-> "brightness", arg |-> val]
    /\ enc' = NoEnc
    /\ UNCHANGED halted

Write(segments, pos) ==
    /\ ~halted
    /\ LET w == write(segments, pos, brightness_)
       IN  /\ Lines(w.tr)
           /\ outcome' = w.outcome
    /\ ret' = -1
    /\ call' = [op |-> "write", num |-> 0, seq |-> segments, pos |-> pos, colon |-> FALSE]
    /\ enc' = NoEnc
    /\ UNCHANGED <<brightness_, bsrc, halted>>

\* hex, number and show: r is the operator's result [tr, outcome, enc]
Display(r) ==
    /\ Lines(r.tr)
    /\ outcome' = r.outcome
    /\ enc' = r.enc
    /\ halted' = (r.outcome = "fault")
    /\ ret' = -1
    /\ UNCHANGED <<brightness_, bsrc>>

Hex(val) ==
    /\ ~halted
    /\ Display(hex(val, brightness_))
    /\ call' = [op |-> "hex", num |-> val, seq |-> <<>>, pos |-> 0, colon |-> FALSE]

Number(num) ==
    /\ ~halted
    /\ Display(number(num, brightness_))
    /\ call' = [op |-> "number", num |-> num, seq |-> <<>>, pos |-> 0, colon |-> FALSE]

Show(str, colon, ub) ==
    /\ ~halted
    /\ Display(show(str, colon, ub, brightness_))
    /\ call' = [op |-> "show", num |-> 0, seq |-> str, pos |-> 0, colon |-> colon]

Next ==
    \/ \E val \in BrightnessArgs : Brightness(val)
    \/ \E segments \in SegmentArgs, pos \in PosArgs : Write(segments, pos)
    \/ \E val \in HexArgs : Hex(val)
    \/ \E num \in NumberArgs : Number(num)
    \/ \E str \in ShowTexts, colon \in BOOLEAN, ub \in UBOutcomes : Show(str, colon, ub)

Spec == Init /\ [][Next]_vars

----------------------------------------------------------------------------
(* Narrower clients of one driver built with the default brightness, each   *)
(* making one kind of call with every argument of its range                *)

\* TM1637(clk, dio): brightness = 7 by default
InitDefault ==
    /\ brightness_ = 7
    /\ trace = TM1637(7)
    /\ pre = [clk |-> 0, dio |-> 0]
    /\ clk = 1
    /\ dio = 1
    /\ call = [op |-> "TM1637", num |-> 7, seq |-> <<>>, pos |-> 0, colon |-> FALSE]
    /\ outcome = "ok"
    /\ ret = -1
    /\ enc = NoEnc
    /\ bsrc = [by |-> "TM1637", arg |-> 7]
    /\ halted = FALSE

EncodeString(str, ub) ==
    /\ LET e == encode_string(str, ub)
       IN  enc' = [str |-> str, segs |-> e.segs, outcome |-> e.outcome]
    /\ UNCHANGED <<brightness_, clk, dio, call, pre, trace, outcome, ret, bsrc, halted>>

NextEnc == \E str \in EncTexts, ub \in UBOutcomes : EncodeString(str, ub)

SpecEnc == InitDefault /\ [][NextEnc]_vars

Uint8 == 0..255

\* the values of a char, signed or unsigned as the platform has it
Char == -128..255

\* a call that touches neither the lines nor the stored brightness
Pure(op, arg, result) ==
    /\ ~halted
    /\ Lines(<<>>)
    /\ call' = [op |-> op, num |-> arg, seq |-> <<>>, pos |-> 0, colon |-> FALSE]
    /\ ret' = result
    /\ outcome' = "ok"
    /\ enc' = NoEnc
    /\ UNCHANGED <<brightness_, bsrc, halted>>

EncodeChar(ch) == Pure("encode_char", ch, encode_char(ch))

NextChar == \E ch \in Char : EncodeChar(ch)

SpecChar == InitDefault /\ [][NextChar]_vars

EncodeDigit(digit) == Pure("encode_digit", digit, encode_digit(digit))

NextDigit == \E digit \in Uint8 : EncodeDigit(digit)

SpecDigit == InitDefault /\ [][NextDigit]_vars

\* 16-bit values with every nibble one of these: every number of leading
\* zero nibbles, digits and letters in every place
NibbleArgs == {0, 1, 10, 15}

HexValues ==
    {4096 * a + 256 * b + 16 * c + d : a, b, c, d \in NibbleArgs}

NextHex == \E val \in HexValues : Hex(val)

SpecHex == InitDefault /\ [][NextHex]_vars

----------------------------------------------------------------------------
(* The private primitives one at a time, in the order the transactions of  *)
(* _write_data_cmd, _write_dsp_ctrl and write call them: _start, then one  *)
(* or more _write_byte, then _stop                                         *)

Prim(op, arg, tr) ==
    /\ ~halted
    /\ Lines(tr)
    /\ call' = [op |-> op, num |-> arg, seq |-> <<>>, pos |-> 0, colon |-> FALSE]
    /\ ret' = -1
    /\ outcome' = "ok"
    /\ enc' = NoEnc
    /\ UNCHANGED <<brightness_, bsrc, halted>>

StartTx ==
    /\ call.op \in {"TM1637", "_stop"}
    /\ Prim("_start", 0, _start)

WriteByte(b) ==
    /\ call.op \in {"_start", "_write_byte"}
    /\ Prim("_write_byte", b, _write_byte(b))

StopTx ==
    /\ call.op = "_write_byte"
    /\ Prim("_stop", 0, _stop)

NextPrim ==
    \/ StartTx
    \/ \E b \in Uint8 : WriteByte(b)
    \/ StopTx

SpecPrim == InitDefault /\ [][NextPrim]_vars

NextBrightness == \E val \in Uint8 : Brightness(val)

SpecBrightness == InitDefault /\ [][NextBrightness]_vars

NextPos == \E pos \in Uint8 : Write(SegsFrom(126, 6), pos)

SpecPos == InitDefault /\ [][NextPos]_vars

----------------------------------------------------------------------------
(* What the chip sees: the line trace read as start conditions, bytes and  *)
(* stop conditions.  A start is dio falling while clk is high, a stop is   *)
(* dio rising while clk is high; inside a transaction dio is sampled at    *)
(* every rising clk edge, eight samples (least significant bit first) and  *)
(* one acknowledge slot to the byte.                                       *)

ByteOf(bits) ==
    bits[1] + 2 * bits[2] + 4 * bits[3] + 8 * bits[4]
        + 16 * bits[5] + 32 * bits[6] + 64 * bits[7] + 128 * bits[8]

\* One platform call e read by the chip.  st = [c, d, open, bits, frames]:
\* current levels, inside a transaction, samples of the byte under way,
\* frames so far.
Step(st, e) ==
    IF e[1] = "clk"
    THEN IF st.open /\ st.c = 0 /\ e[2] = 1
         THEN IF Len(st.bits) = 8
              THEN [st EXCEPT !.c = 1, !.bits = <<>>,
                              !.frames = Append(@, <<"byte", ByteOf(st.bits)>>)]
              ELSE [st EXCEPT !.c = 1, !.bits = Append(@, st.d)]
         ELSE [st EXCEPT !.c = e[2]]
    ELSE IF e[1] = "dio"
    THEN IF st.c = 1 /\ st.d = 1 /\ e[2] = 0
         THEN [st EXCEPT !.d = 0, !.open = TRUE, !.bits = <<>>,
                         !.frames = Append(@, <<"start", 0>>)]
         ELSE IF st.c = 1 /\ st.d = 0 /\ e[2] = 1
         THEN [st EXCEPT !.d = 1, !.open = FALSE, !.bits = <<>>,
                         !.frames = IF st.open THEN Append(@, <<"stop", 0>>) ELSE @]
         ELSE [st EXCEPT !.d = e[2]]
    ELSE st

\* Step over tr[lo..hi], in order, by halves (the test on left only makes
\* the left half be evaluated before the right half is entered)
RECURSIVE Scan(_, _, _, _)
Scan(tr, lo, hi, st) ==
    IF lo > hi THEN st
    ELSE IF lo = hi THEN Step(st, tr[lo])
    ELSE LET mid == (lo + hi) \div 2
             left == Scan(tr, lo, mid, st)
         IN  IF left.open \in BOOLEAN THEN Scan(tr, mid + 1, hi, left) ELSE left

Decode(tr, c0, d0) ==
    Scan(tr, 1, Len(tr),
         [c |-> c0, d |-> d0, open |-> FALSE, bits |-> <<>>, frames |-> <<>>])

\* the frames of the last call
Frames == Decode(trace, pre.clk, pre.dio).frames

START == <<"start", 0>>
STOP == <<"stop", 0>>
Byte(b) == <<"byte", b>>

----------------------------------------------------------------------------
(* Reading the frames of a call *)

\* indices of the start conditions
StartIdx(f) == {i \in 1..Len(f) : f[i] = START}

\* f[i] is the first byte of a transaction and belongs to the address
\* command class (top two bits 11)
IsAddressAt(f, i) ==
    i > 1 /\ i <= Len(f) /\ f[i - 1] = START /\ f[i][1] = "byte" /\ f[i][2] \div 64 = 3

AddressIdx(f) == {i \in 1..Len(f) : IsAddressAt(f, i)}

\* first bytes of transactions that belong to the display-control command
\* class (top two bits 10)
CtrlBytes(f) ==
    {f[i][2] : i \in {j \in 2..Len(f) :
                        f[j - 1] = START /\ f[j][1] = "byte" /\ f[j][2] \div 64 = 2}}

\* the index after the run of bytes that begins at f[i]
RunEnd(f, i) ==
    CHOOSE e \in (i + 1)..(Len(f) + 1) :
        /\ \A k \in i..(e - 1) : f[k][1] = "byte"
        /\ e = Len(f) + 1 \/ f[e][1] # "byte"

\* the bytes that follow the address byte f[i] in its transaction
BytesAfter(f, i) == [k \in 1..(RunEnd(f, i) - i - 1) |-> f[i + k][2]]

\* the three kinds of whole transaction
DataCmd == <<START, Byte(64), STOP>>
DspCtrl(b) == <<START, Byte(136 + b), STOP>>

----------------------------------------------------------------------------
(* C1 - C8: the driver, under Spec (C6: SpecPos, C7: SpecBrightness) *)

\* C1: no public operation fails: every brightness, show, hex and number
\* call completes normally, whatever its argument.
C1_NoCallFails ==
    call.op \in {"brightness", "show", "hex", "number"} => outcome = "ok"

\* C2: every call puts only whole transactions on the wire: each start
\* condition of the call is followed, within the call, by a stop condition
\* with no other start condition in between.
C2_WholeTransactions ==
    LET f == Frames
    IN  \A i \in StartIdx(f) :
            \E j \in (i + 1)..Len(f) :
                /\ f[j] = STOP
                /\ \A k \in (i + 1)..(j - 1) : f[k] # START

C4_SixSegmentOrder ==
    (call.op = "write" /\ Len(call.seq) = 6) =>
        LET f == Frames
            s == call.seq
            out == BytesAfter(f, 5)
        IN  /\ IsAddressAt(f, 5)
            /\ out = <<s[3], s[2], s[1], s[6], s[5], s[4]>>
            /\ \A i \in 0..5 : out[i + 1] = s[((i \div 3) * 6 + 2 - i) + 1]

C4_Witness ==
    /\ call.op = "write" /\ Len(call.seq) = 6
    /\ Cardinality({call.seq[i] : i \in 1..6}) = 6
    /\ BytesAfter(Frames, 5) = <<128, 127, 126, 131, 130, 129>>

\* C5: a write of 1 to 6 segments emits after the address byte as many bytes
\* as the sequence has entries, each entry exactly once.
C5_EveryEntryOnce ==
    (call.op = "write" /\ Len(call.seq) \in 1..6) =>
        LET f == Frames
            s == call.seq
            out == BytesAfter(f, 5)
        IN  /\ IsAddressAt(f, 5)
            /\ Len(out) = Len(s)
            /\ \E perm \in [1..Len(s) -> 1..Len(s)] :
                  /\ \A a, b \in 1..Len(s) : perm[a] = perm[b] => a = b
                  /\ \A a \in 1..Len(s) : out[a] = s[perm[a]]

\* C6: the address byte of write(segments, p) is 0xC0 | min(p, 5), so it
\* lies in 0xC0..0xC5.
C6_AddressClamped ==
    call.op = "write" =>
        LET f == Frames
        IN  /\ Len(f) >= 5
            /\ f[4] = START
            /\ f[5] = Byte(192 + (IF call.pos < 5 THEN call.pos ELSE 5))
            /\ f[5][2] \in 192..197

C6_Witness ==
    /\ call.op = "write" /\ call.pos = 200
    /\ Frames[5] = Byte(197)

\* C7: brightness(v) stores v & 0b111 and returns the stored value.
C7_BrightnessMasked ==
    call.op = "brightness" =>
        /\ brightness_ = call.num % 8
        /\ ret = brightness_

C7_Witness ==
    /\ call.op = "brightness" /\ call.num = 13
    /\ brightness_ = 5 /\ ret = 5

\* the brightness the history says is stored: min(b0, 7) until the first
\* brightness call, then what the most recent brightness call stored
ExpectedBrightness ==
    IF bsrc.by = "TM1637" THEN (IF bsrc.arg < 7 THEN bsrc.arg ELSE 7)
    ELSE bsrc.arg % 8

\* C8: the stored brightness is always in 0..7, only a brightness call
\* changes it, and every display-control byte on the wire is 0x88 | B, B the
\* brightness the constructor or the most recent brightness call stored.
C8_BrightnessPersists ==
    /\ [](/\ brightness_ \in 0..7
          /\ brightness_ = ExpectedBrightness
          /\ \A b \in CtrlBytes(Frames) : b = 136 + ExpectedBrightness
          /\ outcome = "ok" /\ Len(trace) > 0 => CtrlBytes(Frames) # {})
    /\ [][call'.op # "brightness" => brightness_' = brightness_]_vars

C8_Witness ==
    /\ call.op = "number" /\ outcome = "ok"
    /\ bsrc = [by |-> "brightness", arg |-> 8]
    /\ CtrlBytes(Frames) = {136}

----------------------------------------------------------------------------
(* C9, C10: encode_string, under SpecEnc *)

\* the index in str of its k-th character that is not '.'
KthNonDot(str, k) ==
    CHOOSE i \in 1..Len(str) :
        /\ str[i] # ChDot
        /\ Cardinality({j \in 1..i : str[j] # ChDot}) = k

\* C9: the k-th slot encode_string emits is encode_char of the k-th non-dot
\* character, with bit 7 set exactly when a '.' follows that character; no
\* table entry has bit 7 set.
C9_DotsNeverOccupySlot ==
    /\ \A i \in 1..Len(_SEGMENTS) : _SEGMENTS[i] < 128
    /\ enc.outcome # "none" =>
        /\ enc.outcome = "ok"
        /\ \A k \in 1..CountNonDot(enc.str) :
              LET i == KthNonDot(enc.str, k)
              IN  enc.segs[k] =
                      encode_char(enc.str[i])
                          + (IF i < Len(enc.str) /\ enc.str[i + 1] = ChDot
                             THEN 128 ELSE 0)

\* C10: a leading '.' is dropped: encode_string(".") is six blanks and
\* encode_string("." + t) = encode_string(t) for every text t.
C10_LeadingDotDropped ==
    (enc.outcome # "none" /\ Len(enc.str) > 0 /\ enc.str[1] = ChDot) =>
        /\ enc.outcome = "ok"
        /\ enc.segs = encode_string(Tail(enc.str), "ignored").segs
        /\ enc.str = <<ChDot>> => enc.segs = <<0, 0, 0, 0, 0, 0>>

----------------------------------------------------------------------------
(* C11: the shape of encode_string's result, under SpecEnc *)

\* C11: for every text with at most 6 characters that are not '.', the
\* empty text and texts of dots only included, encode_string returns exactly
\* 6 entries: the encoded non-dot characters in order (bit 7 apart, which is
\* the decimal point), then blanks only.
C11_PaddedToSix ==
    (enc.outcome # "none" /\ CountNonDot(enc.str) <= 6) =>
        /\ enc.outcome = "ok"
        /\ Len(enc.segs) = 6
        /\ \A k \in 1..CountNonDot(enc.str) :
              enc.segs[k] % 128 = encode_char(enc.str[KthNonDot(enc.str, k)])
        /\ \A k \in (CountNonDot(enc.str) + 1)..6 : enc.segs[k] = 0

----------------------------------------------------------------------------
(* C12: encode_char, under SpecChar; C13: encode_digit, under SpecDigit *)

\* C12: encode_char is total over every char value and never indexes outside
\* the 39-entry table: space, '*' and '-' give blank, star and dash, a digit
\* gives its table entry, a letter gives entry 10 + its place in the
\* alphabet, upper case the same byte as lower case, and every other
\* character, '.' and the codes below 0 or above 127 included, gives the
\* star 0x63.
C12_EncodeCharTotal ==
    /\ Len(_SEGMENTS) = 39
    /\ call.op = "encode_char" =>
        LET ch == call.num
        IN  /\ CharIndex(ch) \in 0..38
            /\ ret \in 0..255
            /\ ch = 32 => ret = 0
            /\ ch = 42 => ret = 99
            /\ ch = 45 => ret = 64
            /\ ch \in 48..57 => ret = _SEGMENTS[ch - 48 + 1]
            /\ ch \in 97..122 => ret = _SEGMENTS[10 + (ch - 97) + 1]
            /\ ch \in 65..90 => ret = encode_char(ch + 32)
            /\ ch \notin {32, 42, 45} \cup (48..57) \cup (65..90) \cup (97..122)
                  => ret = 99

C12_Witness ==
    call.op = "encode_char" /\ call.num = 70 /\ ret = 113 /\ CharIndex(70) = 15

\* C13: for every 8-bit n, encode_digit(n) is the table entry at n & 0xF, so
\* n and n mod 16 give the same byte, and for n & 0xF in 10..15 it is the
\* byte encode_char gives for 'a'..'f'.
C13_EncodeDigitMasked ==
    call.op = "encode_digit" =>
        LET n == call.num
        IN  /\ ret = _SEGMENTS[(n % 16) + 1]
            /\ ret = encode_digit(n % 16)
            /\ (n % 16) \in 10..15 => ret = encode_char(97 + ((n % 16) - 10))

C13_Witness ==
    call.op = "encode_digit" /\ call.num = 251 /\ ret = 124

----------------------------------------------------------------------------
(* C16: hex, under SpecHex *)

\* the number of hex digits of v without leading zeros, 1 for 0
HexWidth(v) == IF v < 16 THEN 1 ELSE IF v < 256 THEN 2 ELSE IF v < 4096 THEN 3 ELSE 4

\* C16: hex(v) hands write exactly 6 segment bytes, right-aligned: with k
\* the number of hex digits of v without leading zeros (1 for 0, at most 4),
\* the last k entries are encode_digit of the digits, most significant
\* first, and the first 6 - k entries are blank; the write completes.
C16_HexRightAligned ==
    call.op = "hex" =>
        LET v == call.num
            k == HexWidth(v)
        IN  /\ outcome = "ok"
            /\ enc.outcome = "ok"
            /\ Len(enc.segs) = 6
            /\ k \in 1..4
            /\ \A j \in 1..(6 - k) : enc.segs[j] = 0
            /\ \A j \in 1..k :
                  enc.segs[6 - k + j] = encode_digit((v \div (16 ^ (k - j))) % 16)
            /\ BytesAfter(Frames, 5) =
                  <<enc.segs[3], enc.segs[2], enc.segs[1],
                    enc.segs[6], enc.segs[5], enc.segs[4]>>

C16_Witness ==
    /\ call.op = "hex" /\ call.num = 2576
    /\ enc.segs = <<0, 0, 0, 119, 6, 63>>
    /\ outcome = "ok"

----------------------------------------------------------------------------
(* C17: _write_byte, under SpecPrim *)

\* the level of a line after the first i calls of the trace tr of a call
\* that began with the lines at the levels p
LevelIn(tr, p, line, i) == LastPut(tr, i, line, p[line])

\* the level of a line after the first i calls of the last call's trace
LevelAt(line, i) == LevelIn(trace, pre, line, i)

\* the calls of the trace that raise clk from low to high
RisingClk ==
    {i \in 1..Len(trace) : trace[i] = <<"clk", 1>> /\ LevelAt("clk", i - 1) = 0}

\* the k-th of them, counted from 0
RisingClkAt(k) ==
    CHOOSE i \in RisingClk : Cardinality({j \in RisingClk : j < i}) = k

\* C17: _write_byte(b) makes exactly 9 rising clk edges; at the k-th,
\* k = 0..7, dio holds bit k of b (least significant first); dio is put only
\* while clk is low and not at all once the eighth edge has passed (the
\* ninth pulse); clk is low on return; the only platform calls are gpio_put
\* and sleep_us, so dio is never read.
C17_WriteByteWaveform ==
    call.op = "_write_byte" =>
        /\ Cardinality(RisingClk) = 9
        /\ \A k \in 0..7 :
              LevelAt("dio", RisingClkAt(k)) = (call.num \div (2 ^ k)) % 2
        /\ \A i \in 1..Len(trace) :
              trace[i][1] = "dio" =>
                  /\ LevelAt("clk", i - 1) = 0
                  /\ i < RisingClkAt(7)
        /\ clk = 0
        /\ LevelAt("clk", Len(trace)) = 0
        /\ \A i \in 1..Len(trace) :
              \/ trace[i][1] \in {"clk", "dio"} /\ trace[i][2] \in {0, 1}
              \/ trace[i] = <<"sleep", 10>>

C17_Witness ==
    /\ call.op = "_write_byte" /\ call.num = 197
    /\ pre.clk = 0
    /\ Cardinality(RisingClk) = 9
    /\ LevelAt("dio", RisingClkAt(1)) = 0 /\ LevelAt("dio", RisingClkAt(2)) = 1
    /\ dio = 1

----------------------------------------------------------------------------
(* C14, C15: what a display call depends on, under Spec *)

C15_ColonIgnored ==
    [][call'.op = "show" =>
          /\ \E ub \in UBOutcomes :
                show(call'.seq, ~call'.colon, ub, brightness_)
                    = [tr |-> trace', outcome |-> outcome', enc |-> enc']
          /\ clk' = LevelAfter(trace', "clk", clk)
          /\ dio' = LevelAfter(trace', "dio", dio)
          /\ brightness_' = brightness_
          /\ halted' = (outcome' = "fault")]_vars

C15_Witness ==
    /\ call.op = "show" /\ call.colon /\ Len(call.seq) = 6
    /\ outcome = "ok" /\ Len(Frames) = 15

----------------------------------------------------------------------------
(* C18 - C20: the lines over the whole life of the driver, under Spec *)

\* call i of tr changes the level of its line
IsChange(tr, p, i) ==
    tr[i][1] # "sleep" /\ tr[i][2] # LevelIn(tr, p, tr[i][1], i - 1)

\* after the first i calls of tr, the most recent level change has had no
\* sleep_us after it; u0 says so for the time before tr
RECURSIVE Undelayed(_, _, _, _)
Undelayed(tr, p, i, u0) ==
    IF i = 0 THEN u0
    ELSE IF tr[i][1] = "sleep" THEN FALSE
    ELSE IF IsChange(tr, p, i) THEN TRUE
    ELSE Undelayed(tr, p, i - 1, u0)

\* the calls of tr that come before its first sleep_us
BeforeFirstSleep(tr) ==
    {i \in 1..Len(tr) : \A j \in 1..i : tr[j][1] # "sleep"}

\* C18: from construction on, between any two consecutive level changes of
\* the lines there is at least one 10 us sleep: within every call, and from
\* the last change of one call (the stop condition ends on one, with no
\* sleep after it) to the first change of the next.
C18_DelayBetweenChanges ==
    /\ [](\A i \in 1..Len(trace) :
              /\ IsChange(trace, pre, i) => ~Undelayed(trace, pre, i - 1, FALSE)
              /\ trace[i][1] = "sleep" => trace[i][2] = 10)
    /\ [][(trace # <<>> /\ Undelayed(trace, pre, Len(trace), FALSE)) =>
              \A i \in BeforeFirstSleep(trace') : ~IsChange(trace', pre', i)]_vars

\* the calls of tr that change dio while clk is high
DioEdges(tr, p) ==
    {i \in 1..Len(tr) :
        tr[i][1] = "dio" /\ IsChange(tr, p, i) /\ LevelIn(tr, p, "clk", i - 1) = 1}

\* C19: dio changes while clk is high only as the falling edge of a start
\* or the rising edge of a stop; the first such edge after construction
\* begins is falling, and falling and rising edges alternate from then on,
\* within every call and from one call to the next, so that between a start
\* and its stop dio changes only while clk is low.
C19_EdgesAlternate ==
    /\ [](LET e == DioEdges(trace, pre)
          IN  /\ call.op = "TM1637" =>
                    \E i \in e : trace[i][2] = 0 /\ \A j \in e : i <= j
              /\ \A i, j \in e :
                    (i < j /\ \A k \in e : ~(i < k /\ k < j))
                        => trace[i][2] # trace[j][2])
    /\ [][LET e == DioEdges(trace, pre)
              f == DioEdges(trace', pre')
          IN  \A i \in e, j \in f :
                  ((\A k \in e : k <= i) /\ (\A k \in f : j <= k))
                      => trace'[j][2] # trace[i][2]]_vars

\* C20: when a public operation has completed, clk and dio are both high,
\* so every start condition issued after construction begins with clk and
\* dio high.
C20_IdleHigh ==
    /\ outcome = "ok" => (clk = 1 /\ dio = 1)
    /\ call.op # "TM1637" =>
          \A i \in 1..Len(trace) :
              (i + 7 <= Len(trace) /\ SubSeq(trace, i, i + 7) = _start)
                  => (LevelAt("clk", i - 1) = 1 /\ LevelAt("dio", i - 1) = 1)

====
